---- MODULE Spec2Model ----
(***************************************************************************)
(* Model of the MonitorFile watcher (monitorfile.cpp / monitorfile.hpp).   *)
(*                                                                         *)
(* One MonitorFile instance, a set of caller threads that invoke its       *)
(* public functions (filemon, stop, get_state, the destructor), the        *)
(* background threads that run monitor_loop, and the file system as the    *)
(* environment.  Every step of the model is one atomic access of the       *)
(* program to state shared between threads (the mutex, the atomic stop     *)
(* flag, the thread handle) together with the thread-local work around it. *)
(***************************************************************************)
EXTENDS Integers, Sequences, FiniteSets, TLC

(***************************************************************************)
(* Bounds of the model.                                                    *)
(***************************************************************************)
NumCallers == 2       \* caller threads
MaxStarts  == 2       \* background threads ever constructed
MaxTime    == 3       \* largest modification timestamp
MaxChecks  == 4       \* stable_checks saturates here (only ">= 3" is tested)
MaxCount   == 2       \* history counters saturate here
MaxInterval == 3      \* longest polling interval, in clock ticks
MaxClock   == 6       \* the clock stops here

Callers == 1..NumCallers
Paths   == {"A", "B"}             \* "A" is the test file, "B" never exists
Times   == 1..MaxTime
NoTime  == 0 - 1                  \* std::nullopt in org_time
Cbs     == {"none", "cb"}         \* an empty std::function, or a callable
Funcs   == {"none", "cb", "g", "stopper"}  \* arguments of set_callback
Intervals == 1..MaxInterval       \* arguments of set_polling_interval
Second  == 2                      \* std::chrono::seconds(1) in clock ticks
Epoch   == 0                      \* a value-initialised file_time_type
Free    == [kind |-> "free", id |-> 0]

NOT_MONITORING == "NOT_MONITORING"
MONITORING     == "MONITORING"
FILE_NOT_FOUND == "FILE_NOT_FOUND"
FILE_CHANGED   == "FILE_CHANGED"
MonitorState   == {NOT_MONITORING, MONITORING, FILE_NOT_FOUND, FILE_CHANGED}

StabilityThreshold == 3

VARIABLES
    \* members of MonitorFile
    file_name,          \* path monitored, "" before the first start
    org_time,           \* std::optional<file_time_type>
    monitoring_thread,  \* 0: not joinable, i: handle of background thread i
    stop_monitoring,    \* std::atomic<bool>
    monitoring_state,   \* std::atomic<MonitorState>
    callback,           \* std::function<void()>
    mutex,              \* owner of the std::shared_mutex (exclusive)
    stable_checks,      \* int
    \* threads
    loops,              \* background threads: sequence of records
    callers,            \* caller threads: position inside the public call
    \* process and environment
    terminated,         \* std::terminate has been called
    destroyed,          \* the destructor has completed
    fs_exists,          \* does the path exist
    fs_mtime,           \* last write time of "A"
    \* observation
    obs,                \* record of history counters and flags
    \* the polling interval and the clock
    polling_interval,   \* std::chrono::milliseconds, in clock ticks
    now,                \* the steady clock
    deadline,           \* absolute time at which the current wait_for ends
    \* the callback invocation in the background thread
    running,            \* record: position in the call, function called
    \* the header-only MonitorFile (filemon / changed)
    header,             \* record: its members and the caller's position
    \* observation of the setters
    hist                \* record: registrations and interval changes

vars == <<file_name, org_time, monitoring_thread, stop_monitoring,
          monitoring_state, callback, mutex, stable_checks, loops, callers,
          terminated, destroyed, fs_exists, fs_mtime, obs,
          polling_interval, now, deadline, running, header, hist>>

members == <<file_name, org_time, monitoring_thread, stop_monitoring,
             monitoring_state, callback, stable_checks>>
fsvars  == <<fs_exists, fs_mtime>>
timing  == <<polling_interval, now, deadline>>
ext     == <<polling_interval, now, deadline, running, header, hist>>

-----------------------------------------------------------------------------
(***************************************************************************)
(* Thread records and helpers.                                             *)
(***************************************************************************)
IdleCaller == [pc |-> "idle", op |-> "none", ctx |-> "none", path |-> "A",
               cb |-> "none", target |-> 0, won |-> FALSE,
               last |-> "none", ret |-> "none", lastWon |-> FALSE]

NewLoop  == [pc |-> "L171", last_reported_time |-> NoTime,
             change_detected |-> FALSE]
DoneLoop == [pc |-> "done", last_reported_time |-> NoTime,
             change_detected |-> FALSE]

LoopOwner(i)   == [kind |-> "loop", id |-> i]
CallerOwner(t) == [kind |-> "caller", id |-> t]

LoopIds     == 1..Len(loops)
Alive(i)    == loops[i].pc # "done"
AliveLoops  == {i \in LoopIds : Alive(i)}
InFilemon   == {t \in Callers : callers[t].op = "filemon"}
InStop(t)   == callers[t].pc \in {"S114", "S120", "S124", "S126", "S128"}

\* The record of a caller whose public call has ended with value v.
Returned(c, v) ==
    IF obs.returns
    THEN [IdleCaller EXCEPT !.last = c.op, !.ret = v, !.lastWon = c.won]
    ELSE IdleCaller

\* The record of a caller whose stop() has returned: back in the caller of
\* stop(), which is user code, filemon (line 49) or the destructor (line 32).
StopReturned(c) ==
    CASE c.ctx = "filemon" ->
             [c EXCEPT !.pc = "F52", !.ctx = "none", !.target = 0]
      [] c.ctx = "dtor"    ->
             [c EXCEPT !.pc = "D33", !.ctx = "none", !.target = 0]
      [] OTHER             -> Returned(c, "void")

\* History of the current monitoring session, for stating properties.
InitObs == [returns  |-> FALSE,   \* are the results of calls recorded
            track    |-> FALSE,   \* is the history of the session recorded
            started  |-> FALSE,   \* a start has succeeded
            called   |-> FALSE,   \* a public call was made after that start
            origin   |-> NoTime,  \* timestamp recorded by the last start
            cbCount  |-> 0,       \* callback invocations
            reports  |-> 0,       \* confirmed changes
            writes   |-> 0,       \* writes that advanced the timestamp
            setback  |-> FALSE,   \* the timestamp has gone backwards
            missing  |-> FALSE,   \* the file has been missing
            exceeded |-> FALSE,   \* the timestamp has been newer than origin
            fresh    |-> FALSE,   \* the timestamp changed after the last report
            late     |-> FALSE,   \* a write came after the first report
            lastRead |-> NoTime,  \* timestamp read by the previous poll
            sameRun  |-> 0]       \* consecutive polls that read lastRead again

Sat(n) == IF n < MaxCount THEN n + 1 ELSE MaxCount

\* No callback is being invoked.
NotRunning == [pc |-> "idle", f |-> "none"]

\* The header-only MonitorFile after MonitorFile() : org_time{}, new_time{}.
NewHeader == [file_name |-> "", org_time |-> Epoch, new_time |-> Epoch,
              pc |-> "idle", path |-> "", ret |-> "none"]

InitHist == [expected |-> "none",  \* function last registered by a call
             previous |-> "none",  \* function that registration replaced
             startCb  |-> "unset", \* callback argument of the last start
             calls    |-> 0,       \* invocations for the last confirmation
             stale    |-> {},      \* functions not registered at the last
                                   \* confirmation, and not registered since
             shortAt  |-> NoTime,  \* time of a call that shortened the
             shortTo  |-> 0]       \* interval during a wait, and its argument

InitWith(o) ==
    /\ file_name = ""
    /\ org_time = NoTime
    /\ monitoring_thread = 0
    /\ stop_monitoring = FALSE
    /\ monitoring_state = NOT_MONITORING
    /\ callback = "none"
    /\ mutex = Free
    /\ stable_checks = 0
    /\ loops = << >>
    /\ callers = [t \in Callers |-> IdleCaller]
    /\ terminated = FALSE
    /\ destroyed = FALSE
    /\ fs_exists \in BOOLEAN
    /\ fs_mtime = 1
    /\ obs = o
    /\ polling_interval = Second
    /\ now = 0
    /\ deadline = 0
    /\ running = NotRunning
    /\ header = NewHeader
    /\ hist = InitHist

Init == InitWith(InitObs)

-----------------------------------------------------------------------------
(***************************************************************************)
(* File-system queries.  "B" is a path that never exists.                  *)
(***************************************************************************)
exists(p)          == p = "A" /\ fs_exists
last_write_time(p) == fs_mtime

\* std::atomic<bool>::compare_exchange_strong(expected, desired)
compare_exchange_strong(flag, expected, desired) ==
    [ok |-> flag = expected,
     value |-> IF flag = expected THEN desired ELSE flag]

-----------------------------------------------------------------------------
(***************************************************************************)
(* MonitorFile::filemon                                                    *)
(***************************************************************************)
CallFilemon(t, p, c) ==
    /\ ~terminated /\ ~destroyed
    /\ callers[t].pc = "idle"
    /\ Len(loops) + Cardinality(InFilemon) < MaxStarts
    /\ callers' = [callers EXCEPT ![t] =
                     [@ EXCEPT !.pc = "F45", !.op = "filemon", !.path = p,
                               !.cb = c]]
    /\ obs' = IF obs.started THEN [obs EXCEPT !.called = TRUE] ELSE obs
    /\ UNCHANGED <<members, mutex, loops, terminated, destroyed, fsvars>>
    /\ UNCHANGED ext

\* line 45: std::unique_lock<std::shared_mutex> lock(mutex)
F45(t) ==
    /\ ~terminated
    /\ callers[t].pc = "F45"
    /\ mutex = Free
    /\ mutex' = CallerOwner(t)
    /\ callers' = [callers EXCEPT ![t].pc = "F47"]
    /\ UNCHANGED <<members, loops, terminated, destroyed, fsvars, obs>>
    /\ UNCHANGED ext

\* lines 47-50: if (monitoring_thread.joinable()) stop();
F47(t) ==
    /\ ~terminated
    /\ callers[t].pc = "F47"
    /\ callers' = [callers EXCEPT ![t] =
                     IF monitoring_thread # 0
                     THEN [@ EXCEPT !.pc = "S114", !.ctx = "filemon"]
                     ELSE [@ EXCEPT !.pc = "F52"]]
    /\ UNCHANGED <<members, mutex, loops, terminated, destroyed, fsvars, obs>>
    /\ UNCHANGED ext

\* F52 without line 54: FILE_NOT_FOUND is returned but not stored.
F52NoStore(t) ==
    /\ ~terminated
    /\ callers[t].pc = "F52"
    /\ IF ~exists(callers[t].path)
       THEN /\ mutex' = Free
            /\ callers' = [callers EXCEPT ![t] = Returned(@, FILE_NOT_FOUND)]
       ELSE /\ callers' = [callers EXCEPT ![t].pc = "F58"]
            /\ UNCHANGED mutex
    /\ UNCHANGED <<members, loops, terminated, destroyed, fsvars, obs>>
    /\ UNCHANGED ext

\* lines 52-56: the existence check
F52(t) ==
    /\ ~terminated
    /\ callers[t].pc = "F52"
    /\ IF ~exists(callers[t].path)
       THEN /\ monitoring_state' = FILE_NOT_FOUND
            /\ mutex' = Free
            /\ callers' = [callers EXCEPT ![t] = Returned(@, FILE_NOT_FOUND)]
       ELSE /\ callers' = [callers EXCEPT ![t].pc = "F58"]
            /\ UNCHANGED <<monitoring_state, mutex>>
    /\ UNCHANGED <<file_name, org_time, monitoring_thread, stop_monitoring,
                   callback, stable_checks, loops, terminated, destroyed,
                   fsvars, obs>>
    /\ UNCHANGED ext

\* F58 with lines 63-66 as an unconditional assignment: a start without a
\* callback clears the registered one.
F58AlwaysAssigns(t) ==
    /\ ~terminated
    /\ callers[t].pc = "F58"
    /\ file_name' = callers[t].path
    /\ IF ~exists(callers[t].path)
       THEN /\ mutex' = Free
            /\ callers' = [callers EXCEPT ![t] = Returned(@, "filesystem_error")]
            /\ UNCHANGED <<org_time, stable_checks, monitoring_state, callback,
                           obs>>
       ELSE /\ org_time' = last_write_time(callers[t].path)
            /\ stable_checks' = 0
            /\ monitoring_state' = MONITORING
            /\ callback' = callers[t].cb
            /\ callers' = [callers EXCEPT ![t].pc = "F68"]
            /\ obs' = IF obs.track
                      THEN [InitObs EXCEPT !.returns = obs.returns,
                              !.track = TRUE, !.started = TRUE,
                              !.origin = last_write_time(callers[t].path)]
                      ELSE obs
            /\ UNCHANGED mutex
    /\ UNCHANGED <<monitoring_thread, stop_monitoring, loops, terminated,
                   destroyed, fsvars>>
    /\ UNCHANGED <<timing, running, header>>

\* lines 58-66.  fs::last_write_time throws filesystem_error when the file
\* has been removed since line 52; the exception leaves filemon.
F58(t) ==
    /\ ~terminated
    /\ callers[t].pc = "F58"
    /\ file_name' = callers[t].path
    /\ IF ~exists(callers[t].path)
       THEN /\ mutex' = Free
            /\ callers' = [callers EXCEPT ![t] = Returned(@, "filesystem_error")]
            /\ UNCHANGED <<org_time, stable_checks, monitoring_state, callback,
                           obs>>
       ELSE /\ org_time' = last_write_time(callers[t].path)
            /\ stable_checks' = 0
            /\ monitoring_state' = MONITORING
            /\ callback' = IF callers[t].cb # "none" THEN callers[t].cb
                           ELSE callback
            /\ callers' = [callers EXCEPT ![t].pc = "F68"]
            /\ obs' = IF obs.track
                      THEN [InitObs EXCEPT !.returns = obs.returns,
                              !.track = TRUE, !.started = TRUE,
                              !.origin = last_write_time(callers[t].path)]
                      ELSE obs
            /\ UNCHANGED mutex
    /\ UNCHANGED <<monitoring_thread, stop_monitoring, loops, terminated,
                   destroyed, fsvars>>
    /\ UNCHANGED <<timing, running, header>>

\* line 68: stop_monitoring.store(false)
F68(t) ==
    /\ ~terminated
    /\ callers[t].pc = "F68"
    /\ stop_monitoring' = FALSE
    /\ callers' = [callers EXCEPT ![t].pc = "F69"]
    /\ UNCHANGED <<file_name, org_time, monitoring_thread, monitoring_state,
                   callback, stable_checks, mutex, loops, terminated,
                   destroyed, fsvars, obs>>
    /\ UNCHANGED ext

\* lines 69-71: the std::thread temporary starts the new thread, then the
\* move assignment calls std::terminate if the handle is still joinable.
F69(t) ==
    /\ ~terminated
    /\ callers[t].pc = "F69"
    /\ loops' = Append(loops, NewLoop)
    /\ IF monitoring_thread # 0
       THEN /\ terminated' = TRUE
            /\ UNCHANGED <<monitoring_thread, mutex, callers>>
       ELSE /\ monitoring_thread' = Len(loops) + 1
            /\ mutex' = Free
            /\ callers' = [callers EXCEPT ![t] = Returned(@, MONITORING)]
            /\ UNCHANGED terminated
    /\ UNCHANGED <<file_name, org_time, stop_monitoring, monitoring_state,
                   callback, stable_checks, destroyed, fsvars, obs>>
    /\ UNCHANGED ext

-----------------------------------------------------------------------------
(***************************************************************************)
(* MonitorFile::stop, called by user code, by filemon or by the destructor *)
(***************************************************************************)
CallStop(t) ==
    /\ ~terminated /\ ~destroyed
    /\ callers[t].pc = "idle"
    /\ callers' = [callers EXCEPT ![t] =
                     [@ EXCEPT !.pc = "S114", !.op = "stop", !.ctx = "top"]]
    /\ obs' = IF obs.started THEN [obs EXCEPT !.called = TRUE] ELSE obs
    /\ UNCHANGED <<members, mutex, loops, terminated, destroyed, fsvars>>
    /\ UNCHANGED ext

\* lines 113-117: only the caller that moves the flag from false to true
\* goes on.
S114(t) ==
    /\ ~terminated
    /\ callers[t].pc = "S114"
    /\ LET r == compare_exchange_strong(stop_monitoring, FALSE, TRUE)
       IN  /\ stop_monitoring' = r.value
           /\ callers' = [callers EXCEPT ![t] =
                            IF r.ok THEN [@ EXCEPT !.pc = "S120", !.won = TRUE]
                            ELSE StopReturned(@)]
    /\ UNCHANGED <<file_name, org_time, monitoring_thread, monitoring_state,
                   callback, stable_checks, mutex, loops, terminated,
                   destroyed, fsvars, obs>>
    /\ UNCHANGED ext

\* lines 119-122: lock, store NOT_MONITORING, unlock.
S120(t) ==
    /\ ~terminated
    /\ callers[t].pc = "S120"
    /\ mutex = Free
    /\ monitoring_state' = NOT_MONITORING
    /\ callers' = [callers EXCEPT ![t].pc = "S124"]
    /\ UNCHANGED <<file_name, org_time, monitoring_thread, stop_monitoring,
                   callback, stable_checks, mutex, loops, terminated,
                   destroyed, fsvars, obs>>
    /\ UNCHANGED ext

\* line 120 reached from filemon line 49: the calling thread already owns
\* the std::shared_mutex.  Locking it again is undefined behaviour; the
\* thread either blocks for ever on its own lock, or the lock reports
\* EDEADLK and std::system_error leaves stop() and filemon().
S120Relock(t) ==
    /\ ~terminated
    /\ callers[t].pc = "S120"
    /\ mutex = CallerOwner(t)
    /\ \/ /\ callers' = [callers EXCEPT ![t].pc = "deadlock"]
          /\ UNCHANGED mutex
       \/ /\ callers' = [callers EXCEPT ![t] = Returned(@, "system_error")]
          /\ mutex' = Free
    /\ UNCHANGED <<members, loops, terminated, destroyed, fsvars, obs>>
    /\ UNCHANGED ext

\* line 124: cv.notify_all().  A thread in cv.wait_for also wakes when its
\* interval has run out, so the notification enables nothing new here.
S124(t) ==
    /\ ~terminated
    /\ callers[t].pc = "S124"
    /\ callers' = [callers EXCEPT ![t].pc = "S126"]
    /\ UNCHANGED <<members, mutex, loops, terminated, destroyed, fsvars, obs>>
    /\ UNCHANGED ext

\* line 126: if (monitoring_thread.joinable())
S126(t) ==
    /\ ~terminated
    /\ callers[t].pc = "S126"
    /\ callers' = [callers EXCEPT ![t] =
                     IF monitoring_thread # 0
                     THEN [@ EXCEPT !.pc = "S128", !.target = monitoring_thread]
                     ELSE StopReturned(@)]
    /\ UNCHANGED <<members, mutex, loops, terminated, destroyed, fsvars, obs>>
    /\ UNCHANGED ext

\* line 128: monitoring_thread.join() returns when the thread has finished
\* and leaves the handle not joinable.  When another call has joined or
\* replaced the handle in the meantime, the two calls have raced on the
\* std::thread object, which is undefined behaviour: join() returns, or it
\* fails with std::system_error.
JoinOutcomes == {"void", "join_error"}

S128(t) ==
    /\ ~terminated
    /\ callers[t].pc = "S128"
    /\ IF monitoring_thread = callers[t].target
       THEN /\ ~Alive(callers[t].target)
            /\ monitoring_thread' = 0
            /\ callers' = [callers EXCEPT ![t] = StopReturned(@)]
            /\ UNCHANGED mutex
       ELSE /\ UNCHANGED monitoring_thread
            /\ \E o \in JoinOutcomes :
                  IF o = "void"
                  THEN /\ callers' = [callers EXCEPT ![t] = StopReturned(@)]
                       /\ UNCHANGED mutex
                  ELSE /\ callers' = [callers EXCEPT ![t] = Returned(@, o)]
                       /\ mutex' = IF mutex = CallerOwner(t) THEN Free
                                   ELSE mutex
    /\ UNCHANGED <<file_name, org_time, stop_monitoring, monitoring_state,
                   callback, stable_checks, loops, terminated, destroyed,
                   fsvars, obs>>
    /\ UNCHANGED ext

-----------------------------------------------------------------------------
(***************************************************************************)
(* MonitorFile::~MonitorFile.  The owner destroys the object when no other *)
(* call is in progress.  After stop() the members are destroyed; the       *)
(* destructor of a joinable std::thread calls std::terminate.              *)
(***************************************************************************)
CallDtor(t) ==
    /\ ~terminated /\ ~destroyed
    /\ \A u \in Callers : callers[u].pc = "idle"
    /\ callers' = [callers EXCEPT ![t] =
                     [@ EXCEPT !.pc = "S114", !.op = "dtor", !.ctx = "dtor"]]
    /\ obs' = IF obs.started THEN [obs EXCEPT !.called = TRUE] ELSE obs
    /\ UNCHANGED <<members, mutex, loops, terminated, destroyed, fsvars>>
    /\ UNCHANGED ext

D33(t) ==
    /\ ~terminated
    /\ callers[t].pc = "D33"
    /\ IF monitoring_thread # 0
       THEN /\ terminated' = TRUE
            /\ UNCHANGED <<destroyed, callers>>
       ELSE /\ destroyed' = TRUE
            /\ callers' = [callers EXCEPT ![t] = Returned(@, "void")]
            /\ UNCHANGED terminated
    /\ UNCHANGED <<members, mutex, loops, fsvars, obs>>
    /\ UNCHANGED ext

-----------------------------------------------------------------------------
(***************************************************************************)
(* MonitorFile::get_state: a shared lock, which is granted when no thread  *)
(* owns the mutex exclusively, and a read of the state.                    *)
(***************************************************************************)
\* get_state without the shared lock of line 151: the atomic state is read
\* while another thread owns the mutex.
get_state_unlocked(t) ==
    /\ ~terminated /\ ~destroyed
    /\ callers[t].pc = "idle"
    /\ callers' = [callers EXCEPT ![t] =
                     Returned([@ EXCEPT !.op = "get_state"], monitoring_state)]
    /\ UNCHANGED <<members, mutex, loops, terminated, destroyed, fsvars, obs>>
    /\ UNCHANGED ext

get_state(t) ==
    /\ ~terminated /\ ~destroyed
    /\ callers[t].pc = "idle"
    /\ mutex = Free
    /\ callers' = [callers EXCEPT ![t] =
                     Returned([@ EXCEPT !.op = "get_state"], monitoring_state)]
    /\ UNCHANGED <<members, mutex, loops, terminated, destroyed, fsvars, obs>>
    /\ UNCHANGED ext

-----------------------------------------------------------------------------
(***************************************************************************)
(* MonitorFile::set_polling_interval, lines 137-142: lock, assign,         *)
(* notify_all.  A thread waiting in cv.wait_for that is notified evaluates *)
(* the predicate, finds stop_monitoring false, and waits again for the     *)
(* absolute deadline computed when wait_for was entered: the notification  *)
(* changes nothing in it.                                                  *)
(***************************************************************************)
Waiting == {i \in LoopIds : loops[i].pc = "L183"}

set_polling_interval(t, d) ==
    /\ ~terminated /\ ~destroyed
    /\ callers[t].pc = "idle"
    /\ mutex = Free
    /\ polling_interval' = d
    /\ hist' = IF Waiting # {} /\ d < polling_interval
                  /\ hist.shortAt = NoTime
               THEN [hist EXCEPT !.shortAt = now, !.shortTo = d]
               ELSE [hist EXCEPT !.shortAt = NoTime]
    /\ callers' = [callers EXCEPT ![t] =
                     Returned([@ EXCEPT !.op = "set_polling_interval"],
                              "void")]
    /\ UNCHANGED <<members, mutex, loops, terminated, destroyed, fsvars, obs,
                   now, deadline, running, header>>

-----------------------------------------------------------------------------
(***************************************************************************)
(* MonitorFile::monitor_loop, run by background thread i.                  *)
(***************************************************************************)

\* PollStep without line 220: a write during the pending phase does not
\* restart the count of stable polls.
PollStepNoRestart(last_write, org, checks, detected, reported) ==
    LET inc == IF checks < MaxChecks THEN checks + 1 ELSE MaxChecks IN
    IF ~detected
    THEN IF last_write > org
         THEN [change_detected |-> TRUE, org_time |-> last_write,
               stable_checks |-> 0, last_reported_time |-> reported,
               confirm |-> FALSE]
         ELSE [change_detected |-> FALSE, org_time |-> org,
               stable_checks |-> checks, last_reported_time |-> reported,
               confirm |-> FALSE]
    ELSE IF last_write > org
         THEN [change_detected |-> TRUE, org_time |-> last_write,
               stable_checks |-> checks, last_reported_time |-> reported,
               confirm |-> FALSE]
         ELSE IF inc >= StabilityThreshold /\ last_write # reported
              THEN [change_detected |-> TRUE, org_time |-> org,
                    stable_checks |-> inc, last_reported_time |-> last_write,
                    confirm |-> TRUE]
              ELSE [change_detected |-> TRUE, org_time |-> org,
                    stable_checks |-> inc, last_reported_time |-> reported,
                    confirm |-> FALSE]

\* PollStep as a plain stability counter: it counts every poll that finds
\* no newer timestamp and reports at the threshold, without the pending
\* flag of lines 202-213 and without the comparison with
\* last_reported_time of line 225.
PollStepNaive(last_write, org, checks, detected, reported) ==
    LET inc == IF checks < MaxChecks THEN checks + 1 ELSE MaxChecks IN
    IF last_write > org
    THEN [change_detected |-> TRUE, org_time |-> last_write,
          stable_checks |-> 0, last_reported_time |-> reported,
          confirm |-> FALSE]
    ELSE IF inc >= StabilityThreshold
         THEN [change_detected |-> TRUE, org_time |-> org,
               stable_checks |-> inc, last_reported_time |-> last_write,
               confirm |-> TRUE]
         ELSE [change_detected |-> detected, org_time |-> org,
               stable_checks |-> inc, last_reported_time |-> reported,
               confirm |-> FALSE]

\* Lines 202-243 up to the report: the debounce decision of one poll that
\* read timestamp last_write.  confirm says that the change is reported.
PollStep(last_write, org, checks, detected, reported) ==
    LET inc == IF checks < MaxChecks THEN checks + 1 ELSE MaxChecks IN
    IF ~detected
    THEN IF last_write > org
         THEN [change_detected |-> TRUE, org_time |-> last_write,
               stable_checks |-> 0, last_reported_time |-> reported,
               confirm |-> FALSE]
         ELSE [change_detected |-> FALSE, org_time |-> org,
               stable_checks |-> checks, last_reported_time |-> reported,
               confirm |-> FALSE]
    ELSE IF last_write > org
         THEN [change_detected |-> TRUE, org_time |-> last_write,
               stable_checks |-> 0, last_reported_time |-> reported,
               confirm |-> FALSE]
         ELSE IF inc >= StabilityThreshold /\ last_write # reported
              THEN [change_detected |-> TRUE, org_time |-> org,
                    stable_checks |-> inc, last_reported_time |-> last_write,
                    confirm |-> TRUE]
              ELSE [change_detected |-> TRUE, org_time |-> org,
                    stable_checks |-> inc, last_reported_time |-> reported,
                    confirm |-> FALSE]

\* L171 without line 174: last_reported_time does not start at org_time.
L171NoBaseline(i) ==
    /\ ~terminated
    /\ loops[i].pc = "L171"
    /\ mutex = Free
    /\ mutex' = LoopOwner(i)
    /\ stable_checks' = 0
    /\ loops' = [loops EXCEPT ![i] =
                   [pc |-> "L180", last_reported_time |-> NoTime,
                    change_detected |-> FALSE]]
    /\ UNCHANGED <<file_name, org_time, monitoring_thread, stop_monitoring,
                   monitoring_state, callback, callers, terminated, destroyed,
                   fsvars, obs>>
    /\ UNCHANGED ext

\* lines 171-178: take the lock, initialise the locals.
L171(i) ==
    /\ ~terminated
    /\ loops[i].pc = "L171"
    /\ mutex = Free
    /\ mutex' = LoopOwner(i)
    /\ stable_checks' = 0
    /\ loops' = [loops EXCEPT ![i] =
                   [pc |-> "L180", last_reported_time |-> org_time,
                    change_detected |-> FALSE]]
    /\ UNCHANGED <<file_name, org_time, monitoring_thread, stop_monitoring,
                   monitoring_state, callback, callers, terminated, destroyed,
                   fsvars, obs>>
    /\ UNCHANGED ext

\* lines 180-185: the loop condition and the entry of cv.wait_for, which
\* tests its predicate before it releases the lock and waits.
L180(i) ==
    /\ ~terminated
    /\ loops[i].pc = "L180"
    /\ mutex' = Free
    /\ loops' = [loops EXCEPT ![i] =
                   IF stop_monitoring THEN DoneLoop ELSE [@ EXCEPT !.pc = "L183"]]
    /\ UNCHANGED <<members, callers, terminated, destroyed, fsvars, obs>>
    /\ UNCHANGED <<polling_interval, now, running, header>>

\* line 183: the wait ends (interval over, or notified) and takes the lock.
L183(i) ==
    /\ ~terminated
    /\ loops[i].pc = "L183"
    /\ mutex = Free
    /\ mutex' = LoopOwner(i)
    /\ loops' = [loops EXCEPT ![i].pc = "L186"]
    /\ UNCHANGED <<members, callers, terminated, destroyed, fsvars, obs>>
    /\ UNCHANGED ext

\* L186 with a missing file also clearing the debounce counter.
L186ResetsCount(i) ==
    /\ ~terminated
    /\ loops[i].pc = "L186"
    /\ IF stop_monitoring
       THEN /\ loops' = [loops EXCEPT ![i] = DoneLoop]
            /\ mutex' = Free
            /\ UNCHANGED <<monitoring_state, stable_checks>>
       ELSE IF ~exists(file_name)
            THEN /\ monitoring_state' = FILE_NOT_FOUND
                 /\ stable_checks' = 0
                 /\ loops' = [loops EXCEPT ![i].pc = "L180"]
                 /\ UNCHANGED mutex
            ELSE /\ loops' = [loops EXCEPT ![i].pc = "L197"]
                 /\ mutex' = Free
                 /\ UNCHANGED <<monitoring_state, stable_checks>>
    /\ UNCHANGED <<file_name, org_time, monitoring_thread, stop_monitoring,
                   callback, callers, terminated, destroyed, fsvars, obs>>
    /\ UNCHANGED ext

\* lines 186-196: the stop check, the existence check, and the unlock
\* before the settle delay.
L186(i) ==
    /\ ~terminated
    /\ loops[i].pc = "L186"
    /\ IF stop_monitoring
       THEN /\ loops' = [loops EXCEPT ![i] = DoneLoop]
            /\ mutex' = Free
            /\ UNCHANGED monitoring_state
       ELSE IF ~exists(file_name)
            THEN /\ monitoring_state' = FILE_NOT_FOUND
                 /\ loops' = [loops EXCEPT ![i].pc = "L180"]
                 /\ UNCHANGED mutex
            ELSE /\ loops' = [loops EXCEPT ![i].pc = "L197"]
                 /\ mutex' = Free
                 /\ UNCHANGED monitoring_state
    /\ UNCHANGED <<file_name, org_time, monitoring_thread, stop_monitoring,
                   callback, stable_checks, callers, terminated, destroyed,
                   fsvars, obs>>
    /\ UNCHANGED ext

\* lines 197-228: the settle delay ends; lock; read the timestamp
\* (fs::last_write_time throws when the file is gone, and an exception that
\* leaves the thread function calls std::terminate); the debounce decision.
L197(i) ==
    /\ ~terminated
    /\ loops[i].pc = "L197"
    /\ mutex = Free
    /\ IF ~exists(file_name)
       THEN /\ terminated' = TRUE
            /\ UNCHANGED <<org_time, stable_checks, monitoring_state, mutex,
                           loops, obs>>
       ELSE LET lw == last_write_time(file_name)
                r  == PollStep(lw, org_time, stable_checks,
                               loops[i].change_detected,
                               loops[i].last_reported_time)
            IN  /\ mutex' = LoopOwner(i)
                /\ org_time' = r.org_time
                /\ stable_checks' = r.stable_checks
                /\ monitoring_state' = IF r.confirm THEN FILE_CHANGED
                                       ELSE monitoring_state
                /\ loops' = [loops EXCEPT ![i] =
                               [pc |-> IF r.confirm THEN "L231" ELSE "L180",
                                last_reported_time |-> r.last_reported_time,
                                change_detected |-> r.change_detected]]
                /\ obs' = IF ~obs.track THEN obs ELSE
                          [obs EXCEPT
                             !.reports = IF r.confirm THEN Sat(@) ELSE @,
                             !.fresh = IF r.confirm THEN FALSE ELSE @,
                             !.sameRun = IF lw # obs.lastRead THEN 0
                                         ELSE IF @ < StabilityThreshold
                                              THEN @ + 1 ELSE @,
                             !.lastRead = lw]
                /\ UNCHANGED terminated
    /\ UNCHANGED <<file_name, monitoring_thread, stop_monitoring, callback,
                   callers, destroyed, fsvars>>
    /\ UNCHANGED <<timing, running, header>>

\* L231 without line 233: the lock is kept during the callback.
L231KeepsLock(i) ==
    /\ ~terminated
    /\ loops[i].pc = "L231"
    /\ IF callback # "none"
       THEN /\ loops' = [loops EXCEPT ![i].pc = "L234"]
            /\ obs' = IF obs.track THEN [obs EXCEPT !.cbCount = Sat(@)]
                      ELSE obs
            /\ UNCHANGED mutex
       ELSE /\ loops' = [loops EXCEPT ![i].pc = "L239"]
            /\ UNCHANGED <<mutex, obs>>
    /\ UNCHANGED <<members, callers, terminated, destroyed, fsvars>>
    /\ UNCHANGED <<timing, header, hist>>

\* lines 231-236: with a callback registered, unlock and call it.
L231(i) ==
    /\ ~terminated
    /\ loops[i].pc = "L231"
    /\ IF callback # "none"
       THEN /\ mutex' = Free
            /\ loops' = [loops EXCEPT ![i].pc = "L234"]
            /\ obs' = IF obs.track THEN [obs EXCEPT !.cbCount = Sat(@)]
                      ELSE obs
       ELSE /\ loops' = [loops EXCEPT ![i].pc = "L239"]
            /\ UNCHANGED <<mutex, obs>>
    /\ UNCHANGED <<members, callers, terminated, destroyed, fsvars>>
    /\ UNCHANGED <<timing, header, hist>>

\* lines 234-235: the callback returns and the loop takes the lock again.
L234(i) ==
    /\ ~terminated
    /\ loops[i].pc = "L234"
    /\ mutex = Free
    /\ mutex' = LoopOwner(i)
    /\ loops' = [loops EXCEPT ![i].pc = "L239"]
    /\ UNCHANGED <<members, callers, terminated, destroyed, fsvars, obs>>
    /\ UNCHANGED <<timing, header, hist>>

\* ResetAfterReport without line 239: the state stays FILE_CHANGED.
ResetKeepsChanged(l) ==
    [state |-> FILE_CHANGED, stable_checks |-> 0,
     loop |-> [l EXCEPT !.pc = "L180", !.change_detected = FALSE]]

\* lines 239-241: reset for the next change.
ResetAfterReport(l) ==
    [state |-> MONITORING, stable_checks |-> 0,
     loop |-> [l EXCEPT !.pc = "L180", !.change_detected = FALSE]]

L239(i) ==
    /\ ~terminated
    /\ loops[i].pc = "L239"
    /\ LET r == ResetAfterReport(loops[i])
       IN  /\ monitoring_state' = r.state
           /\ stable_checks' = r.stable_checks
           /\ loops' = [loops EXCEPT ![i] = r.loop]
    /\ UNCHANGED <<file_name, org_time, monitoring_thread, stop_monitoring,
                   callback, mutex, callers, terminated, destroyed, fsvars,
                   obs>>
    /\ UNCHANGED ext

-----------------------------------------------------------------------------
(***************************************************************************)
(* The file system: other programs write, back-date, remove and create     *)
(* the file.  The watcher only compares timestamps, so a write advances    *)
(* the timestamp by one.                                                   *)
(***************************************************************************)
Touch ==
    /\ ~terminated
    /\ fs_exists
    /\ fs_mtime < MaxTime
    /\ fs_mtime' = fs_mtime + 1
    /\ obs' = IF obs.started
              THEN [obs EXCEPT !.writes = Sat(@), !.fresh = TRUE,
                               !.exceeded = @ \/ fs_mtime' > obs.origin,
                               !.late = @ \/ obs.reports > 0]
              ELSE obs
    /\ UNCHANGED <<members, mutex, loops, callers, terminated, destroyed,
                   fs_exists>>
    /\ UNCHANGED ext

SetBack ==
    /\ ~terminated
    /\ fs_exists
    /\ \E v \in Times : v < fs_mtime /\ fs_mtime' = v
    /\ obs' = IF obs.started
              THEN [obs EXCEPT !.setback = TRUE, !.fresh = TRUE]
              ELSE obs
    /\ UNCHANGED <<members, mutex, loops, callers, terminated, destroyed,
                   fs_exists>>
    /\ UNCHANGED ext

Remove ==
    /\ ~terminated
    /\ fs_exists
    /\ fs_exists' = FALSE
    /\ obs' = IF obs.started THEN [obs EXCEPT !.missing = TRUE] ELSE obs
    /\ UNCHANGED <<members, mutex, loops, callers, terminated, destroyed,
                   fs_mtime>>
    /\ UNCHANGED ext

Create ==
    /\ ~terminated
    /\ ~fs_exists
    /\ fs_exists' = TRUE
    /\ \E v \in Times : fs_mtime' = v
    /\ obs' = IF obs.started /\ fs_mtime' # fs_mtime
              THEN [obs EXCEPT !.fresh = TRUE] ELSE obs
    /\ UNCHANGED <<members, mutex, loops, callers, terminated, destroyed>>
    /\ UNCHANGED ext

-----------------------------------------------------------------------------
(***************************************************************************)
(* Specifications.                                                         *)
(***************************************************************************)
CallerStep(t) ==
    \/ \E p \in Paths, c \in Cbs : CallFilemon(t, p, c)
    \/ F45(t) \/ F47(t) \/ F52(t) \/ F68(t) \/ F69(t)
    \/ F58(t) /\ UNCHANGED hist
    \/ CallStop(t)
    \/ S114(t) \/ S120(t) \/ S120Relock(t) \/ S124(t) \/ S126(t) \/ S128(t)
    \/ CallDtor(t) \/ D33(t)
    \/ get_state(t)

\* The background thread with the clock left out: a wait ends at any
\* moment, and a callback only returns.
LoopStep(i) ==
    \/ L171(i) \/ L183(i) \/ L186(i) \/ L239(i)
    \/ L180(i) /\ UNCHANGED <<deadline, hist>>
    \/ L197(i) /\ UNCHANGED hist
    \/ L231(i) /\ UNCHANGED running
    \/ L234(i) /\ UNCHANGED running

Env == Touch \/ SetBack \/ Remove \/ Create

Next ==
    \/ \E t \in Callers : CallerStep(t)
    \/ \E i \in LoopIds : LoopStep(i)
    \/ Touch \/ Remove \/ Create

Spec == Init /\ [][Next]_vars

\* One caller thread and the background thread; the results of the calls
\* are recorded.
InitSeq == InitWith([InitObs EXCEPT !.returns = TRUE])

NextSeq ==
    \/ CallerStep(1)
    \/ \E i \in LoopIds : LoopStep(i)
    \/ Touch \/ Remove \/ Create

SpecSeq == InitSeq /\ [][NextSeq]_vars

\* One monitoring session: the watcher is started once and never stopped;
\* the history of the session is recorded.
InitSession == InitWith([InitObs EXCEPT !.track = TRUE])

StartOnce ==
    /\ ~obs.started
    /\ \E p \in Paths, c \in Cbs : CallFilemon(1, p, c)

SessionStep ==
    \/ StartOnce
    \/ F45(1) \/ F47(1) \/ F52(1) \/ F68(1) \/ F69(1)
    \/ F58(1) /\ UNCHANGED hist
    \/ get_state(1)
    \/ \E i \in LoopIds : LoopStep(i)

NextSession == SessionStep \/ Env

SpecSession == InitSession /\ [][NextSession]_vars

\* The session with a file that is only written, and a background thread
\* that is scheduled fairly and whose callback returns.
NextLive == SessionStep \/ Touch

SpecLive ==
    /\ InitSession
    /\ [][NextLive]_vars
    /\ \A i \in 1..MaxStarts : WF_vars(i \in LoopIds /\ LoopStep(i))

\* The steps of thread 1 inside filemon.
StartProgress ==
    \/ F45(1) \/ F47(1) \/ F52(1) \/ F68(1) \/ F69(1)
    \/ F58(1) /\ UNCHANGED hist

\* The session with a clock.  wait_for(lock, polling_interval, pred) is
\* wait_until(lock, now + polling_interval, pred): the wait that begins at
\* line 183 ends when its deadline is reached, or when the thread is
\* notified and finds stop_monitoring set.  Time does not pass beyond the
\* deadline of a waiting thread; the other steps take no time.
Tick ==
    /\ ~terminated
    /\ now < MaxClock
    /\ \A i \in Waiting : now < deadline
    /\ now' = now + 1
    /\ UNCHANGED <<members, mutex, loops, callers, terminated, destroyed,
                   fsvars, obs, polling_interval, deadline, running, header,
                   hist>>

WaitBegins(i) ==
    /\ L180(i)
    /\ deadline' = now + polling_interval
    /\ hist' = [hist EXCEPT !.shortAt = NoTime]

WaitEnds(i) ==
    /\ now >= deadline \/ stop_monitoring
    /\ L183(i)

TimedLoopStep(i) ==
    \/ L171(i) \/ WaitBegins(i) \/ WaitEnds(i) \/ L186(i) \/ L239(i)
    \/ L197(i) /\ UNCHANGED hist
    \/ L231(i) /\ UNCHANGED running
    \/ L234(i) /\ UNCHANGED running

NextTimed ==
    \/ StartOnce
    \/ StartProgress
    \/ \E d \in Intervals : set_polling_interval(1, d)
    \/ \E i \in LoopIds : TimedLoopStep(i)
    \/ Tick
    \/ Touch

SpecTimed == InitSession /\ [][NextTimed]_vars

\* One caller thread that starts and stops the watcher again and again,
\* and a file that is only written; the history of the current session is
\* recorded.
RestartStep ==
    \/ \E p \in Paths, c \in Cbs : CallFilemon(1, p, c)
    \/ StartProgress
    \/ CallStop(1)
    \/ S114(1) \/ S120(1) \/ S120Relock(1) \/ S124(1) \/ S126(1) \/ S128(1)

NextRestart ==
    \/ RestartStep
    \/ \E i \in LoopIds : LoopStep(i)
    \/ Touch

SpecRestart == InitSession /\ [][NextRestart]_vars

-----------------------------------------------------------------------------
(***************************************************************************)
(* MonitorFile::set_callback, lines 160-164: lock, assign.  The background *)
(* thread calls the member at line 234 with the lock released, so an       *)
(* assignment made between its unlock (line 233) and its lock (line 235)   *)
(* races with that call: undefined behaviour, after which the program goes *)
(* on or crashes.                                                          *)
(***************************************************************************)
\* set_callback without line 163: the argument is dropped.
set_callback_dropped(t, g) ==
    /\ ~destroyed
    /\ ~terminated
    /\ callers[t].pc = "idle"
    /\ mutex = Free
    /\ UNCHANGED callback
    /\ \E crash \in (IF running.pc = "idle" THEN {FALSE} ELSE BOOLEAN) :
          terminated' = crash
    /\ hist' = [hist EXCEPT !.expected = g, !.stale = @ \ {g},
                            !.previous = hist.expected]
    /\ callers' = [callers EXCEPT ![t] =
                     Returned([@ EXCEPT !.op = "set_callback"], "void")]
    /\ UNCHANGED <<file_name, org_time, monitoring_thread, stop_monitoring,
                   monitoring_state, stable_checks, mutex, loops, destroyed,
                   fsvars, obs, timing, running, header>>

set_callback(t, g) ==
    /\ ~destroyed
    /\ ~terminated
    /\ callers[t].pc = "idle"
    /\ mutex = Free
    /\ callback' = g
    /\ \E crash \in (IF running.pc = "idle" THEN {FALSE} ELSE BOOLEAN) :
          terminated' = crash
    /\ hist' = [hist EXCEPT !.expected = g, !.stale = @ \ {g},
                            !.previous = hist.expected]
    /\ callers' = [callers EXCEPT ![t] =
                     Returned([@ EXCEPT !.op = "set_callback"], "void")]
    /\ UNCHANGED <<file_name, org_time, monitoring_thread, stop_monitoring,
                   monitoring_state, stable_checks, mutex, loops, destroyed,
                   fsvars, obs, timing, running, header>>

\* lines 58-66, recording the registration made at lines 63-66
Registers(t) ==
    /\ F58(t)
    /\ hist' = IF callers'[t].pc # "F68" THEN hist
               ELSE IF callers[t].cb = "none"
               THEN [hist EXCEPT !.startCb = "none"]
               ELSE [hist EXCEPT !.startCb = callers[t].cb,
                                 !.expected = callers[t].cb,
                                 !.stale = @ \ {callers[t].cb},
                                 !.previous = hist.expected]

\* lines 197-228, recording at a confirmation (line 228, lock held) which
\* functions are not the registered one
Polls(i) ==
    /\ L197(i)
    /\ hist' = IF loops'[i].pc = "L231"
               THEN [hist EXCEPT !.stale = Funcs \ {hist.expected},
                                 !.calls = 0]
               ELSE hist

\* lines 231-233: the test of the member and the unlock
CallbackBegins(i) ==
    /\ L231(i)
    /\ running' = IF callback # "none" THEN [pc |-> "call", f |-> "none"]
                  ELSE NotRunning

\* line 234: callback() calls the function the member holds now; calling an
\* empty std::function throws std::bad_function_call, which leaves the
\* thread function and ends in std::terminate.
Invoke(i) ==
    /\ ~terminated
    /\ loops[i].pc = "L234"
    /\ running.pc = "call"
    /\ IF callback = "none"
       THEN /\ terminated' = TRUE
            /\ running' = [pc |-> "bad_function_call", f |-> "none"]
            /\ UNCHANGED hist
       ELSE /\ running' = [pc |-> IF callback = "stopper" THEN "C113"
                                  ELSE "in",
                           f |-> callback]
            /\ hist' = [hist EXCEPT !.calls = Sat(@)]
            /\ UNCHANGED terminated
    /\ UNCHANGED <<members, mutex, loops, callers, destroyed, fsvars, obs,
                   timing, header>>

\* The function "stopper" calls stop() on the watcher.  Lines 113-117, run
\* by background thread i inside its callback.
CbS113(i) ==
    /\ ~terminated
    /\ loops[i].pc = "L234"
    /\ running.pc = "C113"
    /\ LET r == compare_exchange_strong(stop_monitoring, FALSE, TRUE)
       IN  /\ stop_monitoring' = r.value
           /\ running' = [running EXCEPT !.pc = IF r.ok THEN "C120" ELSE "in"]
    /\ UNCHANGED <<file_name, org_time, monitoring_thread, monitoring_state,
                   callback, stable_checks, mutex, loops, callers, terminated,
                   destroyed, fsvars, obs, timing, header, hist>>

\* lines 119-124: lock, store NOT_MONITORING, unlock, notify_all
CbS120(i) ==
    /\ ~terminated
    /\ loops[i].pc = "L234"
    /\ running.pc = "C120"
    /\ mutex = Free
    /\ monitoring_state' = NOT_MONITORING
    /\ running' = [running EXCEPT !.pc = "C126"]
    /\ UNCHANGED <<file_name, org_time, monitoring_thread, stop_monitoring,
                   callback, stable_checks, mutex, loops, callers, terminated,
                   destroyed, fsvars, obs, timing, header, hist>>

\* lines 126-129: the handle is joinable and names the calling thread, so
\* join() throws std::system_error (resource_deadlock_would_occur); the
\* exception leaves stop(), the callback and the thread function, and ends
\* in std::terminate.  With the handle not joinable stop() returns.
CbS126(i) ==
    /\ ~terminated
    /\ loops[i].pc = "L234"
    /\ running.pc = "C126"
    /\ IF monitoring_thread = i
       THEN /\ running' = [running EXCEPT !.pc = "system_error"]
            /\ terminated' = TRUE
       ELSE /\ running' = [running EXCEPT !.pc = "in"]
            /\ UNCHANGED terminated
    /\ UNCHANGED <<members, mutex, loops, callers, destroyed, fsvars, obs,
                   timing, header, hist>>

\* lines 234-235: the callback returns and the loop takes the lock again
CallbackReturns(i) ==
    /\ running.pc = "in"
    /\ L234(i)
    /\ running' = NotRunning

\* One caller thread that starts, stops and reconfigures the watcher, and
\* the background thread with the steps of its callback.
SetterStep(t) ==
    \/ \E p \in Paths, c \in Cbs : CallFilemon(t, p, c)
    \/ F45(t) \/ F47(t) \/ F52(t) \/ Registers(t) \/ F68(t) \/ F69(t)
    \/ CallStop(t)
    \/ S114(t) \/ S120(t) \/ S120Relock(t) \/ S124(t) \/ S126(t) \/ S128(t)
    \/ get_state(t)
    \/ \E g \in Funcs : set_callback(t, g)

CallbackLoopStep(i) ==
    \/ L171(i) \/ L183(i) \/ L186(i) \/ L239(i)
    \/ L180(i) /\ UNCHANGED <<deadline, hist>>
    \/ Polls(i) \/ CallbackBegins(i) \/ Invoke(i)
    \/ CbS113(i) \/ CbS120(i) \/ CbS126(i)
    \/ CallbackReturns(i)

NextCallback ==
    \/ SetterStep(1)
    \/ \E i \in LoopIds : CallbackLoopStep(i)
    \/ Touch

SpecCallback == Init /\ [][NextCallback]_vars

\* One session in which thread 1, after the start, reads the state and
\* changes the callback and the polling interval.
NextSetters ==
    \/ StartOnce
    \/ F45(1) \/ F47(1) \/ F52(1) \/ Registers(1) \/ F68(1) \/ F69(1)
    \/ get_state(1)
    \/ \E g \in Funcs : set_callback(1, g)
    \/ \E d \in Intervals : set_polling_interval(1, d)
    \/ \E i \in LoopIds : CallbackLoopStep(i)
    \/ Touch

SpecSetters == InitSession /\ [][NextSetters]_vars

\* The session with a file that is written, removed and created again, and
\* a background thread that is scheduled fairly and whose callback returns.
NextRecover == SessionStep \/ Touch \/ Remove \/ Create

SpecRecover ==
    /\ InitSession
    /\ [][NextRecover]_vars
    /\ \A i \in 1..MaxStarts : WF_vars(i \in LoopIds /\ LoopStep(i))

-----------------------------------------------------------------------------
(***************************************************************************)
(* The header-only MonitorFile (filemon / changed), used by one thread.    *)
(* std::filesystem::filesystem_error is a std::runtime_error too; the      *)
(* model keeps the two apart to tell where the exception was thrown.       *)
(***************************************************************************)
HeaderReturned(h, v) == [h EXCEPT !.pc = "idle", !.ret = v]

filemon_call(p) ==
    /\ header.pc = "idle"
    /\ header' = [header EXCEPT !.pc = "H39", !.path = p, !.ret = "none"]
    /\ UNCHANGED <<members, mutex, loops, callers, terminated, destroyed,
                   fsvars, obs, timing, running, hist>>

\* filemon_check that records the name before it tests the path.
filemon_check_late ==
    /\ header.pc = "H39"
    /\ header' = IF ~exists(header.path)
                 THEN HeaderReturned([header EXCEPT
                                        !.file_name = header.path],
                                     "runtime_error")
                 ELSE [header EXCEPT !.pc = "H44"]
    /\ UNCHANGED <<members, mutex, loops, callers, terminated, destroyed,
                   fsvars, obs, timing, running, hist>>

\* filemon, lines 39-42: throw when the path does not exist
filemon_check ==
    /\ header.pc = "H39"
    /\ header' = IF ~exists(header.path)
                 THEN HeaderReturned(header, "runtime_error")
                 ELSE [header EXCEPT !.pc = "H44"]
    /\ UNCHANGED <<members, mutex, loops, callers, terminated, destroyed,
                   fsvars, obs, timing, running, hist>>

\* filemon, lines 44-45, and start_monitoring, lines 68-71:
\* fs::last_write_time throws when the file has been removed since line 39
start_monitoring ==
    /\ header.pc = "H44"
    /\ LET h == [header EXCEPT !.file_name = header.path]
       IN  header' = IF ~exists(h.file_name)
                     THEN HeaderReturned(h, "filesystem_error")
                     ELSE HeaderReturned(
                              [h EXCEPT !.org_time =
                                            last_write_time(h.file_name)],
                              "void")
    /\ UNCHANGED <<members, mutex, loops, callers, terminated, destroyed,
                   fsvars, obs, timing, running, hist>>

changed_call ==
    /\ header.pc = "idle"
    /\ header' = [header EXCEPT !.pc = "H79", !.ret = "none"]
    /\ UNCHANGED <<members, mutex, loops, callers, terminated, destroyed,
                   fsvars, obs, timing, running, hist>>

\* check_file, lines 79-82: throw when the file no longer exists
check_file ==
    /\ header.pc = "H79"
    /\ header' = IF ~exists(header.file_name)
                 THEN HeaderReturned(header, "runtime_error")
                 ELSE [header EXCEPT !.pc = "H84"]
    /\ UNCHANGED <<members, mutex, loops, callers, terminated, destroyed,
                   fsvars, obs, timing, running, hist>>

\* check_file, line 84, and changed, lines 57-62
changed ==
    /\ header.pc = "H84"
    /\ IF ~exists(header.file_name)
       THEN header' = HeaderReturned(header, "filesystem_error")
       ELSE LET h == [header EXCEPT
                        !.new_time = last_write_time(header.file_name)]
            IN  header' = IF h.new_time > h.org_time
                          THEN HeaderReturned(
                                   [h EXCEPT !.org_time = h.new_time], "true")
                          ELSE HeaderReturned(h, "false")
    /\ UNCHANGED <<members, mutex, loops, callers, terminated, destroyed,
                   fsvars, obs, timing, running, hist>>

NextHeader ==
    \/ \E p \in Paths : filemon_call(p)
    \/ filemon_check \/ start_monitoring
    \/ changed_call \/ check_file \/ changed
    \/ Touch \/ SetBack \/ Remove \/ Create

SpecHeader == Init /\ [][NextHeader]_vars

\* Thread 1 starts the watcher once and thread 2 calls stop(), any number
\* of times.  Every thread that can take a step keeps being scheduled, a
\* thread that waits for the mutex gets it when it is free again and again,
\* and the callback returns.
StopProgress == S114(2) \/ S120(2) \/ S124(2) \/ S126(2) \/ S128(2)

NextStopLive ==
    \/ StartOnce
    \/ StartProgress
    \/ CallStop(2)
    \/ StopProgress
    \/ \E i \in LoopIds : LoopStep(i)
    \/ Touch

SpecStopLive ==
    /\ InitSession
    /\ [][NextStopLive]_vars
    /\ SF_vars(StartProgress)
    /\ SF_vars(StopProgress)
    /\ \A i \in 1..MaxStarts : SF_vars(i \in LoopIds /\ LoopStep(i))

TypeOK ==
    /\ monitoring_state \in MonitorState
    /\ stable_checks \in 0..MaxChecks
    /\ Len(loops) <= MaxStarts

-----------------------------------------------------------------------------
(***************************************************************************)
(* Properties.                                                             *)
(***************************************************************************)
LoopStarted == Len(loops) = 1

\* C1: after a successful start with a callback, if the file is written
\* exactly once after the start and then left alone, and the background
\* thread is scheduled fairly, then from some point on the callback has been
\* invoked exactly once and the state is MONITORING for ever.
C1_OneWrite == LoopStarted /\ callback = "cb" /\ obs.writes = 1

C1_SingleEvent ==
    (<>[]C1_OneWrite) => <>[](obs.cbCount = 1 /\ monitoring_state = MONITORING)

C1_Witness ==
    /\ C1_OneWrite
    /\ obs.cbCount = 1
    /\ monitoring_state = MONITORING
    /\ loops[1].pc = "L183"

\* C2: the callback is invoked only when the last three polls read the
\* timestamp that the poll before them read, so no callback is invoked
\* while the writes keep coming; and when a burst of two or more writes has
\* ended and the file stays untouched, the callback ends up invoked exactly
\* once for the whole burst.
C2_Stable ==
    \A i \in LoopIds :
        loops[i].pc \in {"L231", "L234"} => obs.sameRun >= StabilityThreshold

C2_Burst == LoopStarted /\ callback = "cb" /\ obs.writes >= 2 /\ ~obs.late

C2_Debounce ==
    /\ []C2_Stable
    /\ (<>[]C2_Burst) => <>[](obs.cbCount = 1)

C2_Witness ==
    /\ C2_Burst
    /\ obs.cbCount = 1
    /\ loops[1].pc = "L234"

\* C3: a change is confirmed a second time only after the timestamp of the
\* file has changed since the previous confirmation: without a further
\* write the callback is not invoked again for the timestamp it reported.
Confirms(i) ==
    /\ i <= Len(loops)
    /\ loops[i].pc = "L197"
    /\ loops'[i].pc = "L231"

C3_NoDuplicate ==
    [][\A i \in 1..MaxStarts : Confirms(i) => (obs.reports = 0 \/ obs.fresh)]_vars

C3_Witness ==
    /\ LoopStarted
    /\ obs.reports = 1
    /\ obs.cbCount = 1
    /\ ~obs.fresh
    /\ loops[1].pc = "L180"
    /\ stable_checks = 0
    /\ ~loops[1].change_detected
    /\ obs.sameRun >= StabilityThreshold

\* C4: after a successful start, as long as the file has existed all the
\* time and its timestamp has never been newer than the one recorded by the
\* start, no change is confirmed, the callback is not invoked and the state
\* is MONITORING.
C4_Quiet == obs.started /\ ~obs.exceeded /\ ~obs.missing

C4_NoSpuriousReport ==
    C4_Quiet =>
        /\ obs.reports = 0
        /\ obs.cbCount = 0
        /\ monitoring_state = MONITORING

C4_Witness ==
    /\ C4_Quiet
    /\ LoopStarted
    /\ loops[1].pc = "L180"
    /\ obs.sameRun >= StabilityThreshold

\* C5: filemon on a missing path, on a watcher whose thread handle is not
\* joinable, stores and returns FILE_NOT_FOUND and starts no thread; the
\* state is FILE_NOT_FOUND while that is the last result; and a stop() that
\* follows never waits: the mutex is free and there is nothing to join.
FailedStart(t) ==
    /\ callers[t].last = "filemon"
    /\ callers[t].ret = FILE_NOT_FOUND
    /\ monitoring_thread = 0

C5_AfterFailedStart ==
    \A t \in Callers :
        /\ (FailedStart(t) /\ callers[t].pc = "idle") =>
               (monitoring_state = FILE_NOT_FOUND /\ AliveLoops = {})
        /\ (FailedStart(t) /\ callers[t].op = "stop") =>
               /\ callers[t].pc \in {"S114", "S120", "S124", "S126"}
               /\ mutex = Free
               /\ AliveLoops = {}

C5_FailingStep ==
    \A t \in Callers :
        (/\ callers[t].pc = "F52"
         /\ callers'[t].pc # "F52"
         /\ ~exists(callers[t].path)
         /\ monitoring_thread = 0) =>
            /\ callers'[t].pc = "idle"
            /\ callers'[t].ret = FILE_NOT_FOUND
            /\ monitoring_state' = FILE_NOT_FOUND
            /\ loops' = loops
            /\ monitoring_thread' = 0

C5_StartOnMissingFile == []C5_AfterFailedStart /\ [][C5_FailingStep]_vars

C5_Witness ==
    /\ FailedStart(1)
    /\ callers[1].op = "stop"
    /\ callers[1].pc = "S126"
    /\ callers[1].won

\* C6: a filemon call on a watcher whose loop is running returns, with
\* MONITORING or FILE_NOT_FOUND: no caller blocks for ever inside filemon
\* and no filemon call ends with std::system_error.
C6_RestartReturns ==
    \A t \in Callers :
        /\ callers[t].pc # "deadlock"
        /\ callers[t].ret # "system_error"

\* C7: at most one background thread is alive, and the stop flag is not
\* cleared (line 68) while a background thread is still running.
C7_OneLoop ==
    /\ Cardinality(AliveLoops) <= 1
    /\ \A t \in Callers : callers[t].pc = "F69" => AliveLoops = {}

\* C8: when a stop() call returns, to user code, to filemon or to the
\* destructor, no background thread is alive.
StopReturns(t) ==
    /\ callers[t].pc \in {"S114", "S126", "S128"}
    /\ callers'[t].pc \notin {"S114", "S120", "S124", "S126", "S128"}

C8_StopJoins ==
    [][\A t \in Callers : StopReturns(t) => AliveLoops' = {}]_vars

\* C9: of the stop() calls made for one monitoring session exactly one
\* performs the stop, so a background thread is never being joined by two
\* stop() calls.
C9_OneStopper ==
    \A i \in LoopIds :
        Cardinality({t \in Callers : /\ callers[t].pc = "S128"
                                     /\ callers[t].target = i}) <= 1

\* C10: after the stop() call that won the flag has returned, the state is
\* NOT_MONITORING.
C10_StoppedState ==
    \A t \in Callers :
        (/\ callers[t].pc = "idle"
         /\ callers[t].last = "stop"
         /\ callers[t].lastWon) => monitoring_state = NOT_MONITORING

\* C11: a stop() call made by a thread other than the background thread
\* returns, when every thread is scheduled and the callback returns.
C11_StopReturns == InStop(2) ~> ~InStop(2)

\* C12: when set_polling_interval(d) shortens the interval while the
\* background thread is in its interval wait, that wait ends within d, give
\* or take a tick, of the call.
C12_ShorterIntervalTakesEffect ==
    (Waiting # {} /\ hist.shortAt # NoTime) =>
        now <= hist.shortAt + hist.shortTo + 1

\* C13: a stop() call made by the callback on its own watcher returns to
\* the callback: it does not fail and the process is not terminated.
InCallbackStop == running.pc \in {"C113", "C120", "C126"}

C13_StopInCallback ==
    [][(InCallbackStop /\ ~InCallbackStop') =>
           (running'.pc = "in" /\ ~terminated')]_vars

\* C14: in its interval wait, in its settle delay and during the callback
\* the background thread does not own the mutex, so get_state,
\* set_polling_interval and set_callback, called by another thread or from
\* inside the callback, get the lock and complete.
Unlocked == {"L183", "L197", "L234"}

C14_LoopReleasesLock ==
    \A i \in LoopIds :
        (loops[i].pc \in Unlocked /\ ~terminated) =>
            /\ mutex = Free
            /\ ENABLED get_state(1)
            /\ ENABLED set_polling_interval(1, 1)
            /\ ENABLED set_callback(1, "g")

C14_Witness ==
    /\ ~terminated
    /\ \E i \in LoopIds : loops[i].pc = "L234"
    /\ running = [pc |-> "in", f |-> "cb"]
    /\ callback = "g"
    /\ polling_interval # Second

\* C15: a change confirmed after set_callback(g) has returned invokes g
\* and not a function registered before it, and one confirmed change
\* invokes at most one function.
Invoking == running.pc \notin {"idle", "call", "bad_function_call"}

C15_ReplacedCallback ==
    /\ Invoking => running.f \notin hist.stale
    /\ Invoking => hist.calls = 1
    /\ hist.calls <= 1

C15_Witness ==
    /\ running = [pc |-> "in", f |-> "g"]
    /\ hist.previous = "cb"
    /\ hist.expected = "g"
    /\ ~terminated

\* C18: a successful start without a callback leaves the registered
\* function in place, a successful start with a callback registers that
\* callback, and the function a confirmed change finds registered is the
\* one the last registration gave.
C18_StartStep ==
    \A t \in Callers :
        (callers[t].pc = "F58" /\ callers'[t].pc = "F68") =>
            callback' = IF callers[t].cb = "none" THEN callback
                        ELSE callers[t].cb

C18_StartKeepsCallback ==
    /\ [][C18_StartStep]_vars
    /\ [](callback = hist.expected)

C18_Witness ==
    /\ hist.startCb = "none"
    /\ hist.previous = "cb"
    /\ running = [pc |-> "in", f |-> "g"]
    /\ Len(loops) = 2

\* C16: when the file is present from some moment on and the background
\* thread runs, the state does not stay FILE_NOT_FOUND for ever.
C16_Recovers ==
    <>[](fs_exists /\ ~terminated /\ AliveLoops # {}) =>
        []<>(monitoring_state # FILE_NOT_FOUND)

\* C17: a poll that finds the file gone when it reads the timestamp, after
\* the settle delay, stores FILE_NOT_FOUND and the background thread goes
\* on polling: the process is not terminated.
C17_VanishStep ==
    \A i \in LoopIds :
        (/\ loops[i].pc = "L197"
         /\ ~exists(file_name)
         /\ <<loops[i], terminated>>' # <<loops[i], terminated>>) =>
            /\ monitoring_state' = FILE_NOT_FOUND
            /\ ~terminated'
            /\ loops'[i].pc # "done"

C17_VanishIsNotFatal == [][C17_VanishStep]_vars

\* C19: in the header-only class filemon on a path that does not exist
\* throws and records neither the name nor a baseline; changed() on a
\* monitored file that is gone throws and leaves the baseline as it was;
\* no call returns true for a missing file.
Errors == {"runtime_error", "filesystem_error"}

C19_Step ==
    /\ (header.pc = "H39" /\ ~exists(header.path) /\ header' # header) =>
           header' = [header EXCEPT !.pc = "idle", !.ret = "runtime_error"]
    /\ (/\ header.pc \in {"H79", "H84"}
        /\ ~exists(header.file_name)
        /\ header' # header) =>
           /\ header'.pc = "idle"
           /\ header'.ret \in Errors
           /\ header'.org_time = header.org_time
           /\ header'.file_name = header.file_name
    /\ (header'.ret = "true" /\ header.ret # "true") =>
           (exists(header.file_name) /\ header'.org_time > header.org_time)

C19_MissingFileThrows == [][C19_Step]_vars

C19_Witness ==
    /\ header.pc = "idle"
    /\ header.ret = "runtime_error"
    /\ header.file_name = "A"
    /\ header.org_time = 2
    /\ ~fs_exists

\* C20: when the background thread of a start begins, org_time is the
\* timestamp the file had at that start, stable_checks is 0, no change is
\* pending and last_reported_time is that timestamp; a timestamp the
\* session reports differs from it.
C20_Step ==
    \A i \in LoopIds :
        /\ (loops[i].pc = "L171" /\ loops'[i].pc = "L180") =>
               /\ org_time' = obs.origin
               /\ stable_checks' = 0
               /\ ~loops'[i].change_detected
               /\ loops'[i].last_reported_time = obs.origin
        /\ Confirms(i) => loops'[i].last_reported_time > obs.origin

C20_StartReinitialises == [][C20_Step]_vars

C20_Witness ==
    /\ Len(loops) = 2
    /\ loops[2].pc = "L231"
    /\ obs.origin = 2
    /\ loops[2].last_reported_time = 3

\* A poll of background thread i that finds the file missing at line 189.
C21_MissingPoll ==
    \A i \in LoopIds :
        (/\ loops[i].pc = "L186"
         /\ loops'[i].pc # "L186"
         /\ ~stop_monitoring
         /\ ~exists(file_name)) =>
            /\ monitoring_state' = FILE_NOT_FOUND
            /\ loops' = [loops EXCEPT ![i].pc = "L180"]
            /\ UNCHANGED <<file_name, org_time, stable_checks, callback,
                           monitoring_thread, stop_monitoring>>
            /\ obs'.cbCount = obs.cbCount
            /\ obs'.reports = obs.reports

\* C21: a poll that finds the file missing at the existence check stores
\* FILE_NOT_FOUND and changes nothing else: org_time, stable_checks, the
\* pending flag and last_reported_time keep their values, no callback is
\* invoked, and the background thread goes back to the head of the loop.
C21_MissingFileFrame == [][C21_MissingPoll]_vars

C21_Witness ==
    /\ Len(loops) = 1
    /\ loops[1].pc = "L180"
    /\ loops[1].change_detected
    /\ stable_checks = 2
    /\ monitoring_state = FILE_NOT_FOUND
    /\ ~fs_exists

\* The transition function of the debounce over (pending, origin, counter)
\* for a poll that observes timestamp t: a newer timestamp becomes the
\* origin, clears the counter and makes the change pending; otherwise Idle
\* stays as it is and Pending counts one more poll.
Transition(pending, origin, counter, t) ==
    IF t > origin
    THEN [pending |-> TRUE, origin |-> t, counter |-> 0]
    ELSE IF pending
         THEN [pending |-> TRUE, origin |-> origin, counter |-> counter + 1]
         ELSE [pending |-> FALSE, origin |-> origin, counter |-> counter]

\* The steps of background thread i from the read of line 200 to the reset
\* of lines 239-241.
C22_Step ==
    \A i \in LoopIds :
        /\ (/\ loops[i].pc = "L197"
            /\ loops'[i].pc # "L197"
            /\ stable_checks < MaxChecks) =>
               LET r == Transition(loops[i].change_detected, org_time,
                                   stable_checks, fs_mtime)
               IN  /\ loops'[i].change_detected = r.pending
                   /\ org_time' = r.origin
                   /\ stable_checks' = r.counter
        /\ (loops[i].pc \in {"L231", "L234"}) =>
               /\ loops'[i].change_detected = loops[i].change_detected
               /\ UNCHANGED <<org_time, stable_checks>>
        /\ (loops[i].pc = "L239" /\ loops'[i].pc # "L239") =>
               /\ ~loops'[i].change_detected
               /\ stable_checks' = 0
               /\ UNCHANGED org_time

\* C22: every poll that reads the timestamp of the file updates
\* (change_detected, org_time, stable_checks) as the transition function
\* says (for a counter below the bound MaxChecks); between the confirmation
\* and the end of the callback the three stay as they are, and the reset
\* after a confirmed change clears the counter, returns to Idle and keeps
\* the origin.
C22_TransitionFunction == [][C22_Step]_vars

C22_Witness ==
    /\ Len(loops) = 1
    /\ loops[1].pc = "L180"
    /\ obs.reports >= 1
    /\ loops[1].change_detected
    /\ stable_checks = 2
    /\ org_time > loops[1].last_reported_time

\* A get_state() call of thread t that returns FILE_CHANGED.
C23_Step ==
    \A t \in Callers :
        (/\ callers[t].pc = "idle"
         /\ callers'[t].pc = "idle"
         /\ callers'[t] # callers[t]
         /\ callers'[t].last = "get_state"
         /\ callers'[t].ret = FILE_CHANGED) =>
            /\ callback # "none"
            /\ \E i \in LoopIds : loops[i].pc = "L234"

\* C23: a get_state() call returns FILE_CHANGED only while a callback is
\* executing on the background thread; with no callback registered no
\* get_state() call returns FILE_CHANGED, because lines 228-239 store
\* FILE_CHANGED and MONITORING without releasing the lock.
C23_ChangedOnlyInCallback == [][C23_Step]_vars

C23_Witness ==
    /\ callback = "none"
    /\ monitoring_state = FILE_CHANGED
    /\ \E i \in LoopIds : loops[i].pc = "L239" /\ mutex = LoopOwner(i)
    /\ callers[1].pc = "idle"
    /\ callers[1].last = "get_state"
    /\ callers[1].ret = MONITORING

\* A change is pending for background thread i: detected and not yet
\* confirmed.
Pending(i) ==
    /\ loops[i].change_detected
    /\ loops[i].pc \notin {"L231", "L234", "L239"}

C24_Inv ==
    /\ stable_checks <= StabilityThreshold
    /\ \A i \in LoopIds :
           Pending(i) => org_time > loops[i].last_reported_time

C24_Step ==
    \A i \in LoopIds :
        (loops[i].pc = "L197" /\ loops'[i].pc # "L197") =>
            /\ loops'[i].pc = "L231" =>
                   /\ Pending(i)
                   /\ obs'.sameRun = StabilityThreshold
            /\ (Pending(i) /\ fs_mtime <= org_time) =>
                   /\ stable_checks' = obs'.sameRun
                   /\ stable_checks' >= StabilityThreshold =>
                          loops'[i].pc = "L231"

\* C24: with a file whose timestamp never decreases, a pending change has
\* org_time newer than last_reported_time and stable_checks never exceeds
\* 3; a poll that counts the third consecutive unchanged read of a pending
\* change confirms it (the comparison with last_reported_time withholds
\* nothing), and no other poll confirms.
C24_ConfirmedAtThirdPoll == []C24_Inv /\ [][C24_Step]_vars

C24_Witness ==
    /\ Len(loops) = 2
    /\ loops[2].pc = "L231"
    /\ stable_checks = StabilityThreshold
    /\ obs.sameRun = StabilityThreshold
    /\ obs.writes >= 2
    /\ loops[2].last_reported_time = org_time

\* Background thread i begins a callback invocation: it leaves the test of
\* line 231 for the call of line 234.
BeginsCallback(i) == loops[i].pc = "L231" /\ loops'[i].pc = "L234"

\* C25: once stop() has set stop_monitoring, the background thread begins
\* no callback invocation, also when the flag is set during the settle
\* delay of lines 196-198.
C25_NoCallbackAfterStop ==
    [][\A i \in LoopIds : BeginsCallback(i) => ~stop_monitoring]_vars

\* C26: the call of line 234 never finds the callback member empty, under
\* any interleaving with set_callback: the function invoked for a confirmed
\* change is non-empty.
C26_NeverInvokesEmpty ==
    [][\A i \in LoopIds :
          (loops[i].pc = "L234" /\ running.pc = "call"
                                /\ running'.pc # "call") =>
              /\ callback # "none"
              /\ running'.pc # "bad_function_call"]_vars

====
